---------------------------- MODULE Spec2Model ----------------------------
(***************************************************************************)
(* A model of src/libcrun/linux.c of crun: the entry points                *)
(* libcrun_set_namespaces, libcrun_set_mounts, libcrun_set_usernamespace,  *)
(* libcrun_set_caps and libcrun_set_rlimits, each as a state machine over  *)
(* the kernel calls it issues.                                             *)
(*                                                                         *)
(* Every kernel call is one step.  Its outcome is an input of the step:    *)
(* "OK", or the errno of a failure.  A failed call leaves the process as   *)
(* it was.  `log' is the sequence of the kernel calls issued so far, `sys' *)
(* the outcome of the last one (the C code's `ret < 0' and `errno').       *)
(*                                                                         *)
(* A capability mask word (unsigned long) is modelled as the set of its    *)
(* set bit positions: `|' is \cup, `&' is \cap, `== 0' is `= {}'.          *)
(***************************************************************************)
EXTENDS Integers, Sequences, FiniteSets, TLC

VARIABLES
  def,        \* the container definition (oci_container), read only
  container,  \* crun_container: host_uid, host_gid, unshare_flags
  pc,         \* the position in the running entry point
  i,          \* the loop index i / cap of the running function
  flags,      \* int flags of libcrun_set_namespaces and of do_mounts
  mdata,      \* do_mounts: char *data, the data string of the mount at hand
  caps,       \* libcrun_set_caps: struct all_caps_s caps
  fds,        \* the descriptor variables fd, oldrootfd, newrootfd
  open_fds,   \* the descriptors the running function opened, still open
  proc,       \* the process as the kernel sees it
  proc0,      \* the process as it was when the entry point was called
  log,        \* the kernel calls issued so far, in order
  sys,        \* outcome of the last kernel call: "OK" or an errno
  refused,    \* the failed calls the code went on after (see Refuse)
  result,     \* the entry point's return value, once pc = "done"
  err         \* the error message set by the failing step; NoErr if none

vars == <<def, container, pc, i, flags, mdata, caps, fds, open_fds, proc,
          proc0, log, sys, refused, result, err>>

NULL == "NULL"
NoErr == [msg |-> "", arg |-> "", errno |-> "none"]

\* A data string that is NULL (line 251).
NoData == <<>>

----------------------------------------------------------------------------
(* Outcomes of kernel calls. *)

EINVAL == "EINVAL"
EPERM == "EPERM"
ENOMEM == "ENOMEM"     \* stands for every errno other than EINVAL and EPERM
Errnos == {EINVAL, EPERM, ENOMEM}
Outcomes == {"OK"} \cup Errnos

\* The value a kernel call returns for an outcome: 0, or -1 with errno set.
KRet(outcome) == IF outcome = "OK" THEN 0 ELSE -1

\* The descriptor variables before any open: fd = -1 (line 86).
NoFds == [fd |-> -1, oldrootfd |-> -1, newrootfd |-> -1]

\* The descriptor open returns: the lowest one not in use (0, 1 and 2 are).
NewFd(open) ==
  CHOOSE n \in 0..(Cardinality(open) + 3) :
    /\ n \notin {0, 1, 2} \cup open
    /\ \A m \in 0..(n - 1) : m \in {0, 1, 2} \cup open

\* cleanup_close (utils.h): at scope exit, close the descriptor if >= 0.
cleanup_close(open, fd) == IF fd >= 0 THEN open \ {fd} ELSE open

\* a | b and a & ~b on non-negative ints.
RECURSIVE BitOr(_, _)
BitOr(a, b) ==
  IF a = 0 THEN b
  ELSE IF b = 0 THEN a
  ELSE (IF a % 2 = 1 \/ b % 2 = 1 THEN 1 ELSE 0) + 2 * BitOr(a \div 2, b \div 2)

RECURSIVE BitAndNot(_, _)
BitAndNot(a, b) ==
  IF a = 0 THEN 0
  ELSE (IF a % 2 = 1 /\ b % 2 = 0 THEN 1 ELSE 0)
       + 2 * BitAndNot(a \div 2, b \div 2)

\* crun_static_error (utils.c): store the message, return a negative value.
crun_static_error(status, msg, arg) ==
  [ret |-> -1, err |-> [msg |-> msg, arg |-> arg, errno |-> status]]

----------------------------------------------------------------------------
(* Capabilities: set_required_caps, read_caps, libcrun_set_caps. *)

\* The last capability number of <linux/capability.h> (CAP_AUDIT_READ).
CAP_LAST_CAP == 37

\* cap_from_name (libcap): the number of a capability name, -1 if unknown.
CapTable ==
  [CAP_CHOWN |-> 0, CAP_NET_BIND_SERVICE |-> 10, CAP_SYS_ADMIN |-> 21,
   CAP_WAKE_ALARM |-> 35, CAP_AUDIT_READ |-> 37]

cap_from_name(name) ==
  IF name \in DOMAIN CapTable THEN CapTable[name] ELSE -1

\* 1L << ((x) & 31)
CAP_TO_MASK_0(x) == {x % 32}

\* CAP_TO_MASK_0(x - 32)
CAP_TO_MASK_1(x) == CAP_TO_MASK_0(x - 32)

ZeroMask == <<{}, {}>>

ZeroCaps ==
  [effective |-> ZeroMask, permitted |-> ZeroMask, inheritable |-> ZeroMask,
   ambient |-> ZeroMask, bounding |-> ZeroMask]

\* One iteration of read_caps's loop on a resolved capability number.
read_caps_bit(mask, cap) ==
  IF cap < 32 THEN <<mask[1] \cup CAP_TO_MASK_0(cap), mask[2]>>
              ELSE <<mask[1], mask[2] \cup CAP_TO_MASK_1(cap)>>

\* read_caps: [ret, caps, name]; ret = -1 and the unknown name at the first
\* name cap_from_name rejects, with the bits of the names before it set.
RECURSIVE read_caps_from(_, _, _)
read_caps_from(mask, values, k) ==
  IF k > Len(values) THEN [ret |-> 0, caps |-> mask, name |-> ""]
  ELSE IF cap_from_name(values[k]) < 0
       THEN [ret |-> -1, caps |-> mask, name |-> values[k]]
       ELSE read_caps_from(read_caps_bit(mask, cap_from_name(values[k])),
                           values, k + 1)

read_caps_skip_unknown(mask, values) ==
  LET Known(name) == cap_from_name(name) >= 0
  IN read_caps_from(mask, SelectSeq(values, Known), 1)

read_caps(mask, values) == read_caps_from(mask, values, 1)

\* The condition of the ambient loop: the bit of cap is set in caps->ambient.
ambient_wanted_low_word(c, cap) == CAP_TO_MASK_0(cap) \cap c.ambient[1] # {}

ambient_wanted_of_bounding(c, cap) ==
  \/ cap < 32 /\ CAP_TO_MASK_0(cap) \cap c.bounding[1] # {}
  \/ cap >= 32 /\ CAP_TO_MASK_1(cap) \cap c.bounding[2] # {}

ambient_wanted(c, cap) ==
  \/ cap < 32 /\ CAP_TO_MASK_0(cap) \cap c.ambient[1] # {}
  \/ cap >= 32 /\ CAP_TO_MASK_1(cap) \cap c.ambient[2] # {}

\* The condition of the bounding loop: the bit is clear in caps->bounding.
bounding_unwanted_inverted(c, cap) ==
  \/ cap < 32 /\ CAP_TO_MASK_0(cap) \cap c.bounding[1] # {}
  \/ cap >= 32 /\ CAP_TO_MASK_1(cap) \cap c.bounding[2] # {}

bounding_unwanted(c, cap) ==
  \/ cap < 32 /\ CAP_TO_MASK_0(cap) \cap c.bounding[1] = {}
  \/ cap >= 32 /\ CAP_TO_MASK_1(cap) \cap c.bounding[2] = {}

\* ret < 0 && !(errno == EINVAL || errno == EPERM)
prctl_fatal(outcome) ==
  KRet(outcome) < 0 /\ ~(outcome = EINVAL \/ outcome = EPERM)

\* ret = capset (&hdr, data) < 0: the value of the comparison, 0 or 1.
capset_ret(outcome) == IF KRet(outcome) < 0 THEN 1 ELSE 0

\* One kernel call of set_required_caps, as logged.
ZeroData == [effective |-> ZeroMask, permitted |-> ZeroMask,
             inheritable |-> ZeroMask]
KCall(op, cap, data) == [op |-> op, cap |-> cap, data |-> data]

\* `refused' after a call of outcome o that was to change the process
\* (`effective': it was not a no-op): a failure the code goes on after is
\* recorded, with the capability it was about.
Refuse(op, cap, o, effective) ==
  IF o # "OK" /\ effective THEN refused \cup {[op |-> op, cap |-> cap]}
                           ELSE refused

\* The entry point returns r, leaving the message e.
Return(r, e) ==
  /\ pc' = "done"
  /\ result' = r
  /\ err' = e

\* libcrun_set_caps up to the call of set_required_caps: the five read_caps
\* in the order effective, inheritable, ambient, bounding, permitted.
CapCategories ==
  <<"effective", "inheritable", "ambient", "bounding", "permitted">>

RECURSIVE read_all_caps(_, _, _)
read_all_caps(c, lists, k) ==
  IF k > Len(CapCategories) THEN [ret |-> 0, caps |-> c, name |-> ""]
  ELSE LET cat == CapCategories[k]
           r == read_caps(c[cat], lists[cat])
       IN IF r.ret < 0 THEN [ret |-> r.ret, caps |-> c, name |-> r.name]
          ELSE read_all_caps([c EXCEPT ![cat] = r.caps], lists, k + 1)

set_caps_entry ==
  /\ pc = "set_caps"
  /\ LET r == IF def.has_capabilities
              THEN read_all_caps(ZeroCaps, def.capabilities, 1)
              ELSE [ret |-> 0, caps |-> ZeroCaps, name |-> ""]
     IN IF r.ret < 0
        THEN /\ Return(r.ret, [msg |-> "unknown cap", arg |-> r.name,
                               errno |-> "none"])
             /\ UNCHANGED caps
        ELSE /\ caps' = r.caps
             /\ pc' = "ambient_clear"
             /\ UNCHANGED <<result, err>>
  /\ UNCHANGED <<mdata, def, container, i, flags, fds, open_fds, proc, proc0, log,
                 sys, refused>>

\* prctl (PR_CAP_AMBIENT, PR_CAP_AMBIENT_CLEAR_ALL)
ambient_clear ==
  /\ pc = "ambient_clear"
  /\ \E o \in Outcomes :
       /\ sys' = o
       /\ log' = Append(log, KCall("ambient_clear_all", -1, ZeroData))
       /\ proc' = IF o = "OK" THEN [proc EXCEPT !.ambient = {}] ELSE proc
       /\ refused' = Refuse("ambient_clear_all", -1, o, proc.ambient # {})
       /\ IF prctl_fatal(o)
          THEN /\ Return(crun_static_error(o, "prctl reset ambient", "").ret,
                         crun_static_error(o, "prctl reset ambient", "").err)
               /\ UNCHANGED i
          ELSE /\ pc' = "ambient_raise"
               /\ i' = 0
               /\ UNCHANGED <<result, err>>
  /\ UNCHANGED <<mdata, def, container, flags, caps, fds, open_fds, proc0>>

\* One iteration of the loop of prctl (PR_CAP_AMBIENT, PR_CAP_AMBIENT_RAISE).
ambient_raise ==
  /\ pc = "ambient_raise"
  /\ \/ /\ ambient_wanted(caps, i)
        /\ \E o \in Outcomes :
             /\ sys' = o
             /\ log' = Append(log, KCall("ambient_raise", i, ZeroData))
             /\ proc' = IF o = "OK"
                        THEN [proc EXCEPT !.ambient = @ \cup {i}]
                        ELSE proc
             /\ refused' = Refuse("ambient_raise", i, o, i \notin proc.ambient)
             /\ IF prctl_fatal(o)
                THEN /\ Return(crun_static_error(o, "prctl ambient raise", "").ret,
                               crun_static_error(o, "prctl ambient raise", "").err)
                     /\ UNCHANGED i
                ELSE /\ pc' = IF i + 1 <= CAP_LAST_CAP THEN "ambient_raise"
                                                       ELSE "bounding_drop"
                     /\ i' = IF i + 1 <= CAP_LAST_CAP THEN i + 1 ELSE 0
                     /\ UNCHANGED <<result, err>>
     \/ /\ ~ambient_wanted(caps, i)
        /\ pc' = IF i + 1 <= CAP_LAST_CAP THEN "ambient_raise"
                                          ELSE "bounding_drop"
        /\ i' = IF i + 1 <= CAP_LAST_CAP THEN i + 1 ELSE 0
        /\ UNCHANGED <<result, err, sys, log, proc, refused>>
  /\ UNCHANGED <<mdata, def, container, flags, caps, fds, open_fds, proc0>>

\* One iteration of the loop of prctl (PR_CAPBSET_DROP).
bounding_drop ==
  /\ pc = "bounding_drop"
  /\ \/ /\ bounding_unwanted(caps, i)
        /\ \E o \in Outcomes :
             /\ sys' = o
             /\ log' = Append(log, KCall("bounding_drop", i, ZeroData))
             /\ proc' = IF o = "OK"
                        THEN [proc EXCEPT !.bounding = @ \ {i}]
                        ELSE proc
             /\ refused' = Refuse("bounding_drop", i, o, i \in proc.bounding)
             /\ IF prctl_fatal(o)
                THEN /\ Return(crun_static_error(o, "prctl drop bounding", "").ret,
                               crun_static_error(o, "prctl drop bounding", "").err)
                     /\ UNCHANGED i
                ELSE /\ pc' = IF i + 1 <= CAP_LAST_CAP THEN "bounding_drop"
                                                       ELSE "capset"
                     /\ i' = IF i + 1 <= CAP_LAST_CAP THEN i + 1 ELSE 0
                     /\ UNCHANGED <<result, err>>
     \/ /\ ~bounding_unwanted(caps, i)
        /\ pc' = IF i + 1 <= CAP_LAST_CAP THEN "bounding_drop" ELSE "capset"
        /\ i' = IF i + 1 <= CAP_LAST_CAP THEN i + 1 ELSE 0
        /\ UNCHANGED <<result, err, sys, log, proc, refused>>
  /\ UNCHANGED <<mdata, def, container, flags, caps, fds, open_fds, proc0>>

\* capset (&hdr, data) with the effective, inheritable and permitted words.
capset ==
  /\ pc = "capset"
  /\ \E o \in Outcomes :
       LET data == [effective |-> caps.effective,
                    permitted |-> caps.permitted,
                    inheritable |-> caps.inheritable]
           ret == capset_ret(o)
       IN /\ sys' = o
          /\ log' = Append(log, KCall("capset", -1, data))
          /\ proc' = IF o = "OK" THEN [proc EXCEPT !.capdata = data] ELSE proc
          /\ IF ret < 0
             THEN Return(crun_static_error(o, "capset", "").ret,
                         crun_static_error(o, "capset", "").err)
             ELSE IF def.no_new_privileges
                  THEN pc' = "no_new_privs" /\ UNCHANGED <<result, err>>
                  ELSE Return(0, err)
  /\ UNCHANGED <<mdata, def, container, i, flags, caps, fds, open_fds, proc0,
                 refused>>

\* prctl (PR_SET_NO_NEW_PRIVS, 1)
no_new_privs ==
  /\ pc = "no_new_privs"
  /\ \E o \in Outcomes :
       /\ sys' = o
       /\ log' = Append(log, KCall("no_new_privs", -1, ZeroData))
       /\ proc' = IF o = "OK" THEN [proc EXCEPT !.no_new_privs = TRUE]
                              ELSE proc
       /\ IF KRet(o) < 0
          THEN Return(crun_static_error(o, "no new privs", "").ret,
                      crun_static_error(o, "no new privs", "").err)
          ELSE Return(0, err)
  /\ UNCHANGED <<mdata, def, container, i, flags, caps, fds, open_fds, proc0,
                 refused>>

----------------------------------------------------------------------------
(* The runs of libcrun_set_caps. *)

CapLists == [effective : {<<>>, <<"CAP_NET_BIND_SERVICE">>},
             inheritable : {<<"CAP_WAKE_ALARM">>},
             permitted : {<<"CAP_NET_BIND_SERVICE", "CAP_AUDIT_READ">>},
             ambient : {<<>>, <<"CAP_NET_BIND_SERVICE">>,
                        <<"CAP_AUDIT_READ", "CAP_NET_BIND_SERVICE">>,
                        <<"CAP_CHOWN", "CAP_BOGUS", "CAP_SYS_ADMIN">>},
             bounding : {<<>>, <<"CAP_NET_BIND_SERVICE", "CAP_CHOWN">>,
                         <<"CAP_WAKE_ALARM", "CAP_NET_BIND_SERVICE">>,
                         <<"CAP_SYS_ADMIN", "CAP_UNKNOWN">>}]

NoCapLists == [effective |-> <<>>, inheritable |-> <<>>, permitted |-> <<>>,
               ambient |-> <<>>, bounding |-> <<>>]

\* The ambient and bounding sets the process may hold when it calls.
InitAmbient == {{}, {21}, {10, 35}}
InitBounding == {{0, 10, 35}, {10, 21, 37}, 0..CAP_LAST_CAP \ (1..36)}

NoContainer ==
  [host_uid |-> 0, host_gid |-> 0, unshare_flags |-> 0, rootfs |-> NULL]

NoDef ==
  [namespaces |-> <<>>, mounts |-> <<>>, rootfs_propagation |-> NULL,
   root_path |-> "/bundle/rootfs", has_capabilities |-> FALSE,
   capabilities |-> NoCapLists, no_new_privileges |-> FALSE,
   has_rlimits |-> FALSE, rlimits |-> <<>>]

\* The process before the launch: no id map written, setgroups allowed, and
\* every resource limit at (0, 0) here.
InitProc ==
  [ambient |-> {}, bounding |-> {}, capdata |-> ZeroData,
   no_new_privs |-> FALSE,
   setgroups |-> <<"a", "l", "l", "o", "w">>, uid_map |-> <<>>,
   gid_map |-> <<>>,
   rlimits |-> [r \in 0..15 |-> [rlim_cur |-> 0, rlim_max |-> 0]]]

InitCommon ==
  /\ flags = 0
  /\ mdata = NoData
  /\ caps = ZeroCaps
  /\ fds = NoFds
  /\ open_fds = {}
  /\ log = <<>>
  /\ sys = "OK"
  /\ refused = {}
  /\ result = 0
  /\ err = NoErr

InitCaps ==
  /\ InitCommon
  /\ container = NoContainer
  /\ pc = "set_caps"
  /\ i = 0
  /\ \E has \in BOOLEAN, nnp \in BOOLEAN :
       \E lists \in (IF has THEN CapLists ELSE {NoCapLists}) :
         def = [NoDef EXCEPT !.has_capabilities = has,
                             !.capabilities = lists,
                             !.no_new_privileges = nnp]
  /\ \E a \in InitAmbient, b \in InitBounding :
       proc = [InitProc EXCEPT !.ambient = a, !.bounding = b]
  /\ proc0 = proc

NextCaps ==
  \/ set_caps_entry
  \/ ambient_clear
  \/ ambient_raise
  \/ bounding_drop
  \/ capset
  \/ no_new_privs

SpecCaps == InitCaps /\ [][NextCaps]_vars

----------------------------------------------------------------------------
(* Namespaces: find_namespace, libcrun_set_namespaces. *)

CLONE_NEWNS == 131072
CLONE_NEWCGROUP == 33554432
CLONE_NEWUTS == 67108864
CLONE_NEWIPC == 134217728
CLONE_NEWUSER == 268435456
CLONE_NEWPID == 536870912
CLONE_NEWNET == 1073741824

\* static struct linux_namespace_s namespaces[]
namespaces ==
  <<[name |-> "mount", value |-> CLONE_NEWNS],
    [name |-> "cgroup", value |-> CLONE_NEWCGROUP],
    [name |-> "network", value |-> CLONE_NEWNET],
    [name |-> "ipc", value |-> CLONE_NEWIPC],
    [name |-> "pid", value |-> CLONE_NEWPID],
    [name |-> "uts", value |-> CLONE_NEWUTS],
    [name |-> "user", value |-> CLONE_NEWUSER]>>

RECURSIVE find_in_table(_, _, _, _)
find_in_table(table, name, k, missing) ==
  IF k > Len(table) THEN missing
  ELSE IF table[k].name = name THEN table[k].value
  ELSE find_in_table(table, name, k + 1, missing)

find_namespace_or_zero(name) == find_in_table(namespaces, name, 1, 0)

find_namespace(name) == find_in_table(namespaces, name, 1, -1)

\* flags |= value
ns_accumulate_assign(f, value) == value

ns_accumulate(f, value) == BitOr(f, value)

\* The scope exit of `cleanup_close int fd' in the join loop.
ns_fd_release_none(open, fd) == open

ns_fd_release(open, fd) == cleanup_close(open, fd)

\* def->linux->namespaces[i]->path == NULL: no join for this request.
no_join_path_never(ns) == FALSE

no_join_path(ns) == ns.path = NULL

\* One kernel call of libcrun_set_namespaces, as logged.
NsCall(op, path, fd, f) == [op |-> op, path |-> path, fd |-> fd, flags |-> f]

\* One iteration of the first loop: resolve the type, or fail on it.
resolve_namespace ==
  /\ pc = "set_namespaces"
  /\ i <= Len(def.namespaces)
  /\ LET value == find_namespace(def.namespaces[i].type)
     IN IF value < 0
        THEN /\ Return(crun_static_error("0", "invalid namespace type",
                                         def.namespaces[i].type).ret,
                       crun_static_error("0", "invalid namespace type",
                                         def.namespaces[i].type).err)
             /\ UNCHANGED <<i, flags>>
        ELSE /\ flags' = ns_accumulate(flags, value)
             /\ i' = i + 1
             /\ UNCHANGED <<pc, result, err>>
  /\ UNCHANGED <<mdata, def, container, caps, fds, open_fds, proc, proc0, log, sys,
                 refused>>

\* container->unshare_flags = flags; unshare (flags)
unshare ==
  /\ pc = "set_namespaces"
  /\ i > Len(def.namespaces)
  /\ container' = [container EXCEPT !.unshare_flags = flags]
  /\ \E o \in Outcomes :
       /\ sys' = o
       /\ log' = Append(log, NsCall("unshare", "", -1, flags))
       /\ IF KRet(o) < 0
          THEN /\ Return(crun_static_error(o, "unshare", "").ret,
                         crun_static_error(o, "unshare", "").err)
               /\ UNCHANGED i
          ELSE /\ pc' = "join"
               /\ i' = 1
               /\ UNCHANGED <<result, err>>
  /\ UNCHANGED <<mdata, def, flags, caps, fds, open_fds, proc, proc0, refused>>

\* One iteration of the second loop up to the open: skip a request without
\* a path, open the path of another.
join_open ==
  /\ pc = "join"
  /\ i <= Len(def.namespaces)
  /\ \/ /\ no_join_path(def.namespaces[i])
        /\ i' = i + 1
        /\ UNCHANGED <<pc, fds, open_fds, log, sys, result, err>>
     \/ /\ ~no_join_path(def.namespaces[i])
        /\ \E o \in Outcomes :
             /\ sys' = o
             /\ log' = Append(log, NsCall("open", def.namespaces[i].path, -1, 0))
             /\ IF KRet(o) < 0
                THEN /\ Return(crun_static_error(o, "open",
                                                 def.namespaces[i].path).ret,
                               crun_static_error(o, "open",
                                                 def.namespaces[i].path).err)
                     /\ open_fds' = ns_fd_release(open_fds, -1)
                     /\ UNCHANGED fds
                ELSE /\ fds' = [fds EXCEPT !.fd = NewFd(open_fds)]
                     /\ open_fds' = open_fds \cup {NewFd(open_fds)}
                     /\ pc' = "setns"
                     /\ UNCHANGED <<result, err>>
        /\ UNCHANGED i
  /\ UNCHANGED <<mdata, def, container, flags, caps, proc, proc0, refused>>

\* setns (fd, value), and the end of the iteration, which closes fd.
join_setns ==
  /\ pc = "setns"
  /\ \E o \in Outcomes :
       LET value == find_namespace(def.namespaces[i].type)
           call == NsCall("setns", def.namespaces[i].path, fds.fd, value)
           left == ns_fd_release(open_fds, fds.fd)
       IN /\ sys' = o
          /\ open_fds' = left
          /\ log' = IF left # open_fds
                    THEN log \o <<call, NsCall("close", "", fds.fd, 0)>>
                    ELSE Append(log, call)
          /\ fds' = NoFds
          /\ IF KRet(o) < 0
             THEN /\ Return(crun_static_error(o, "setns",
                                              def.namespaces[i].path).ret,
                            crun_static_error(o, "setns",
                                              def.namespaces[i].path).err)
                  /\ UNCHANGED i
             ELSE /\ pc' = "join"
                  /\ i' = i + 1
                  /\ UNCHANGED <<result, err>>
  /\ UNCHANGED <<mdata, def, container, flags, caps, proc, proc0, refused>>

\* return 0 after the second loop.
set_namespaces_return ==
  /\ pc = "join"
  /\ i > Len(def.namespaces)
  /\ Return(0, err)
  /\ UNCHANGED <<mdata, def, container, i, flags, caps, fds, open_fds, proc, proc0,
                 log, sys, refused>>

\* The longest namespace list tried.
MaxNs == 3

NsRequests ==
  {[type |-> "mount", path |-> NULL],
   [type |-> "network", path |-> "/proc/1/ns/net"],
   [type |-> "network", path |-> NULL],
   [type |-> "user", path |-> "/proc/7/ns/user"],
   [type |-> "uts", path |-> NULL],
   [type |-> "net", path |-> "/proc/1/ns/net"],
   [type |-> "bogus", path |-> NULL]}

RECURSIVE SeqsUpTo(_, _)
SeqsUpTo(S, n) ==
  IF n = 0 THEN {<<>>}
  ELSE SeqsUpTo(S, n - 1)
       \cup {Append(q, x) : q \in {r \in SeqsUpTo(S, n - 1) : Len(r) = n - 1},
                            x \in S}

InitNamespaces ==
  /\ InitCommon
  /\ pc = "set_namespaces"
  /\ i = 1
  /\ container = NoContainer
  /\ \E ns \in SeqsUpTo(NsRequests, MaxNs) :
       def = [NoDef EXCEPT !.namespaces = ns]
  /\ proc = InitProc
  /\ proc0 = proc

NextNamespaces ==
  \/ resolve_namespace
  \/ unshare
  \/ join_open
  \/ join_setns
  \/ set_namespaces_return

SpecNamespaces == InitNamespaces /\ [][NextNamespaces]_vars

----------------------------------------------------------------------------
(* Mounts: get_mount_flags, get_mount_flags_or_option, get_default_flags,  *)
(* do_mounts, do_pivot, libcrun_set_mounts.                                *)
(*                                                                         *)
(* A string built by xasprintf is the sequence of its parts; a data string *)
(* that is NULL is the empty sequence.                                     *)

MS_RDONLY == 1
MS_NOSUID == 2
MS_NODEV == 4
MS_NOEXEC == 8
MS_SYNCHRONOUS == 16
MS_DIRSYNC == 128
MS_NOATIME == 1024
MS_NODIRATIME == 2048
MS_BIND == 4096
MS_REC == 16384
MS_UNBINDABLE == 131072
MS_PRIVATE == 262144
MS_SLAVE == 524288
MS_SHARED == 1048576
MS_RELATIME == 2097152
MS_STRICTATIME == 16777216
MS_LAZYTIME == 33554432
MNT_DETACH == 2

\* static struct propagation_flags_s propagation_flags[]
propagation_flags ==
  <<[name |-> "rshared", value |-> BitOr(MS_REC, MS_SHARED)],
    [name |-> "rslave", value |-> BitOr(MS_REC, MS_SLAVE)],
    [name |-> "rprivate", value |-> BitOr(MS_REC, MS_PRIVATE)],
    [name |-> "shared", value |-> MS_SHARED],
    [name |-> "slave", value |-> MS_SLAVE],
    [name |-> "private", value |-> MS_PRIVATE],
    [name |-> "unbindable", value |-> MS_UNBINDABLE],
    [name |-> "nosuid", value |-> MS_NOSUID],
    [name |-> "noexec", value |-> MS_NOEXEC],
    [name |-> "nodev", value |-> MS_NODEV],
    [name |-> "dirsync", value |-> MS_DIRSYNC],
    [name |-> "lazytime", value |-> MS_LAZYTIME],
    [name |-> "nodiratime", value |-> MS_NODIRATIME],
    [name |-> "noatime", value |-> MS_NOATIME],
    [name |-> "ro", value |-> MS_RDONLY],
    [name |-> "relatime", value |-> MS_RELATIME],
    [name |-> "strictatime", value |-> MS_STRICTATIME],
    [name |-> "synchronous", value |-> MS_SYNCHRONOUS]>>

get_mount_flags(name) == find_in_table(propagation_flags, name, 1, 0)

\* get_mount_flags_or_option: [flags, option], option the data string after.
get_mount_flags_or_option_append_always(name, option) ==
  [flags |-> get_mount_flags(name),
   option |-> IF option # NoData THEN option \o <<",", name>> ELSE <<name>>]

get_mount_flags_or_option(name, option) ==
  LET f == get_mount_flags(name)
  IN IF f # 0 THEN [flags |-> f, option |-> option]
     ELSE [flags |-> 0,
           option |-> IF option # NoData THEN option \o <<",", name>>
                                         ELSE <<name>>]

\* The data of /dev/pts (lines 230-233).
pts_data_by_gid(c) ==
  IF c.host_gid = 0 THEN <<"newinstance,ptmxmode=0666,mode=620,gid=5">>
  ELSE <<"newinstance,ptmxmode=0666,mode=620">>

pts_data(c) ==
  IF c.host_uid = 0 THEN <<"newinstance,ptmxmode=0666,mode=620,gid=5">>
  ELSE <<"newinstance,ptmxmode=0666,mode=620">>

\* get_default_flags: [flags, data].
get_default_flags(c, destination) ==
  IF destination = "/proc" THEN [flags |-> 0, data |-> NoData]
  ELSE IF destination = "/dev/cgroup" \/ destination = "/sys/fs/cgroup"
  THEN [flags |-> BitOr(BitOr(MS_NOEXEC, MS_NOSUID), MS_STRICTATIME),
        data |-> <<"none,name=">>]
  ELSE IF destination = "/dev"
  THEN [flags |-> BitOr(MS_NOEXEC, MS_STRICTATIME), data |-> <<"mode=755">>]
  ELSE IF destination = "/dev/shm"
  THEN [flags |-> BitOr(BitOr(MS_NOEXEC, MS_NOSUID), MS_NODEV),
        data |-> <<"mode=1777,size=65536k">>]
  ELSE IF destination = "/dev/mqueue"
  THEN [flags |-> BitOr(BitOr(MS_NOEXEC, MS_NOSUID), MS_NODEV), data |-> NoData]
  ELSE IF destination = "/dev/pts"
  THEN [flags |-> BitOr(MS_NOEXEC, MS_NOSUID), data |-> pts_data(c)]
  ELSE IF destination = "/sys"
  THEN [flags |-> BitOr(BitOr(MS_NOEXEC, MS_NOSUID), MS_NODEV), data |-> NoData]
  ELSE [flags |-> 0, data |-> NoData]

\* The loop over the options of a mount, from flags f and data string d.
RECURSIVE fold_options(_, _, _, _)
fold_options(options, j, f, d) ==
  IF j > Len(options) THEN [flags |-> f, data |-> d]
  ELSE LET r == get_mount_flags_or_option(options[j], d)
       IN fold_options(options, j + 1, BitOr(f, r.flags), r.option)

\* target: "%s/%s" of rootfs and the destination past its first character,
\* or the destination when rootfs is NULL.
mount_target(rootfs, destination) ==
  IF rootfs # NULL THEN <<rootfs, "/", destination>> ELSE <<destination>>

\* What do_mounts computes for a mount before the call of mount.
mount_args_keep_rdonly(c, m) ==
  LET derived == IF ~m.has_options THEN get_default_flags(c, m.destination)
                 ELSE fold_options(m.options, 1, 0, NoData)
  IN [source |-> IF m.source # NULL THEN m.source ELSE m.type,
      target |-> mount_target(c.rootfs, m.destination),
      type |-> m.type,
      flags |-> IF m.type = "bind" THEN BitOr(derived.flags, MS_BIND)
                ELSE derived.flags,
      data |-> derived.data]

mount_args(c, m) ==
  LET derived == IF ~m.has_options THEN get_default_flags(c, m.destination)
                 ELSE fold_options(m.options, 1, 0, NoData)
      bound == IF m.type = "bind" THEN BitOr(derived.flags, MS_BIND)
               ELSE derived.flags
  IN [source |-> IF m.source # NULL THEN m.source ELSE m.type,
      target |-> mount_target(c.rootfs, m.destination),
      type |-> m.type,
      flags |-> BitAndNot(bound, MS_RDONLY),
      data |-> derived.data]

\* One kernel call of libcrun_set_mounts, as logged.
MntCall(op, source, target, type, f, data, fd) ==
  [op |-> op, source |-> source, target |-> target, type |-> type,
   flags |-> f, data |-> data, fd |-> fd]

PathCall(op, target) == MntCall(op, "", target, "", 0, NoData, -1)
FdCall(op, fd) == MntCall(op, "", <<>>, "", 0, NoData, fd)

\* rootfsPropagation of libcrun_set_mounts.
rootfs_propagation(d) ==
  IF d.rootfs_propagation # NULL THEN get_mount_flags(d.rootfs_propagation)
  ELSE BitOr(MS_REC, MS_SLAVE)

\* mount ("", "/", "", MS_REC | rootfsPropagation, NULL)
remount_root ==
  /\ pc = "set_mounts"
  /\ \E o \in Outcomes :
       /\ sys' = o
       /\ log' = Append(log, MntCall("mount", "", <<"/">>, "",
                                     BitOr(MS_REC, rootfs_propagation(def)),
                                     NoData, -1))
       /\ IF KRet(o) < 0
          THEN Return(crun_static_error(o, "remount root", "").ret,
                      crun_static_error(o, "remount root", "").err)
          ELSE pc' = "mount_rootfs" /\ UNCHANGED <<result, err>>
  /\ UNCHANGED <<mdata, def, container, i, flags, caps, fds, open_fds, proc, proc0,
                 refused>>

\* mount (def->root->path, rootfs, "", MS_BIND | MS_REC | rootfsPropagation, NULL)
mount_rootfs ==
  /\ pc = "mount_rootfs"
  /\ \E o \in Outcomes :
       /\ sys' = o
       /\ log' = Append(log,
            MntCall("mount", def.root_path, <<container.rootfs>>, "",
                    BitOr(BitOr(MS_BIND, MS_REC), rootfs_propagation(def)),
                    NoData, -1))
       /\ IF KRet(o) < 0
          THEN Return(crun_static_error(o, "mount rootfs", "").ret,
                      crun_static_error(o, "mount rootfs", "").err)
               /\ UNCHANGED i
          ELSE pc' = "do_mounts" /\ i' = 1 /\ UNCHANGED <<result, err>>
  /\ UNCHANGED <<mdata, def, container, flags, caps, fds, open_fds, proc, proc0,
                 refused>>

\* do_mounts, one iteration up to crun_ensure_directory (target, 0755, err).
ensure_directory ==
  /\ pc = "do_mounts"
  /\ i <= Len(def.mounts)
  /\ \E o \in Outcomes :
       LET target == mount_target(container.rootfs, def.mounts[i].destination)
       IN /\ sys' = o
          /\ log' = Append(log, PathCall("ensure_directory", target))
          /\ IF KRet(o) < 0
             THEN Return(crun_static_error(o, "ensure directory",
                                           def.mounts[i].destination).ret,
                         crun_static_error(o, "ensure directory",
                                           def.mounts[i].destination).err)
             ELSE pc' = "mount" /\ UNCHANGED <<result, err>>
  /\ UNCHANGED <<mdata, def, container, i, flags, caps, fds, open_fds, proc, proc0,
                 refused>>

\* do_mounts, the rest of the iteration: the flags, the data, the source,
\* and the mount, which a mount of type cgroup goes without.
do_mount ==
  /\ pc = "mount"
  /\ LET a == mount_args(container, def.mounts[i])
     IN \/ /\ a.type = "cgroup"
           /\ pc' = "do_mounts"
           /\ i' = i + 1
           /\ UNCHANGED <<log, sys, result, err>>
        \/ /\ a.type # "cgroup"
           /\ \E o \in Outcomes :
                /\ sys' = o
                /\ log' = Append(log, MntCall("mount", a.source, a.target,
                                              a.type, a.flags, a.data, -1))
                /\ IF KRet(o) < 0
                   THEN /\ Return(crun_static_error(o, "mount",
                                       def.mounts[i].destination).ret,
                                  crun_static_error(o, "mount",
                                       def.mounts[i].destination).err)
                        /\ UNCHANGED i
                   ELSE /\ pc' = "do_mounts"
                        /\ i' = i + 1
                        /\ UNCHANGED <<result, err>>
  /\ UNCHANGED <<mdata, def, container, flags, caps, fds, open_fds, proc, proc0,
                 refused>>

\* The end of do_mounts: the loop is over and the function ends without a
\* return statement, so the value libcrun_set_mounts reads as ret is
\* undefined: negative (it returns that), or not (it goes on to do_pivot).
do_mounts_end ==
  /\ pc = "do_mounts"
  /\ i > Len(def.mounts)
  /\ \E ret \in {-1, 0, 1} :
       IF ret < 0 THEN Return(ret, err)
       ELSE pc' = "do_pivot" /\ UNCHANGED <<result, err>>
  /\ UNCHANGED <<mdata, def, container, i, flags, caps, fds, open_fds, proc, proc0,
                 log, sys, refused>>

\* The scope exit of `cleanup_close int oldrootfd' and `newrootfd' (the
\* later declared first): the descriptors left open, and the closes made.
pivot_fd_release_old_only(open, f) == cleanup_close(open, f.oldrootfd)

pivot_fd_release(open, f) ==
  cleanup_close(cleanup_close(open, f.newrootfd), f.oldrootfd)

pivot_closes(open, f) ==
  (IF f.newrootfd \in open \ pivot_fd_release(open, f)
   THEN <<FdCall("close", f.newrootfd)>> ELSE <<>>)
  \o (IF f.oldrootfd \in open \ pivot_fd_release(open, f)
      THEN <<FdCall("close", f.oldrootfd)>> ELSE <<>>)

\* do_pivot returns r through libcrun_set_mounts after the call `call'.
PivotReturn(call, r, e) ==
  /\ Return(r, e)
  /\ open_fds' = pivot_fd_release(open_fds, fds)
  /\ log' = Append(log, call) \o pivot_closes(open_fds, fds)
  /\ fds' = NoFds

\* The order of the calls of do_pivot after the opens.
pivot_next_fchdir_first(at) ==
  CASE at = "fchdir_new" -> "fchdir_old"
    [] at = "fchdir_old" -> "pivot_root"
    [] at = "pivot_root" -> "mount_rprivate"
    [] at = "mount_rprivate" -> "umount"
    [] at = "umount" -> "chdir"
    [] at = "chdir" -> "done"

pivot_next(at) ==
  CASE at = "fchdir_new" -> "pivot_root"
    [] at = "pivot_root" -> "fchdir_old"
    [] at = "fchdir_old" -> "mount_rprivate"
    [] at = "mount_rprivate" -> "umount"
    [] at = "umount" -> "chdir"
    [] at = "chdir" -> "done"

\* One step of do_pivot after the opens: the call, and on failure the
\* return of the error msg, else the next step.
PivotStep(at, call, msg, arg) ==
  /\ pc = at
  /\ \E o \in Outcomes :
       /\ sys' = o
       /\ IF KRet(o) < 0
          THEN PivotReturn(call, crun_static_error(o, msg, arg).ret,
                           crun_static_error(o, msg, arg).err)
          ELSE IF pivot_next(at) = "done"
               THEN PivotReturn(call, 0, err)
               ELSE /\ pc' = pivot_next(at)
                    /\ log' = Append(log, call)
                    /\ UNCHANGED <<fds, open_fds, result, err>>
  /\ UNCHANGED <<mdata, def, container, i, flags, caps, proc, proc0, refused>>

\* cleanup_close int oldrootfd = open ("/", O_DIRECTORY | O_RDONLY)
pivot_open_old ==
  /\ pc = "do_pivot"
  /\ \E o \in Outcomes :
       /\ sys' = o
       /\ log' = Append(log, PathCall("open", <<"/">>))
       /\ fds' = [fds EXCEPT !.oldrootfd =
                    IF KRet(o) < 0 THEN -1 ELSE NewFd(open_fds)]
       /\ open_fds' = IF KRet(o) < 0 THEN open_fds
                      ELSE open_fds \cup {NewFd(open_fds)}
  /\ pc' = "pivot_open_new"
  /\ UNCHANGED <<mdata, def, container, i, flags, caps, proc, proc0, refused,
                 result, err>>

\* cleanup_close int newrootfd = open (rootfs, O_DIRECTORY | O_RDONLY), and
\* the two tests of the descriptors.
pivot_open_new ==
  /\ pc = "pivot_open_new"
  /\ \E o \in Outcomes :
       LET f == [fds EXCEPT !.newrootfd =
                   IF KRet(o) < 0 THEN -1 ELSE NewFd(open_fds)]
           open == IF KRet(o) < 0 THEN open_fds
                   ELSE open_fds \cup {NewFd(open_fds)}
           call == PathCall("open", <<container.rootfs>>)
           e == IF f.oldrootfd < 0
                THEN crun_static_error(IF KRet(o) < 0 THEN o ELSE sys,
                                       "open", "/")
                ELSE crun_static_error(o, "open", container.rootfs)
       IN /\ sys' = o
          /\ IF f.oldrootfd < 0 \/ f.newrootfd < 0
             THEN /\ Return(e.ret, e.err)
                  /\ open_fds' = pivot_fd_release(open, f)
                  /\ log' = Append(log, call) \o pivot_closes(open, f)
                  /\ fds' = NoFds
             ELSE /\ pc' = "fchdir_new"
                  /\ fds' = f
                  /\ open_fds' = open
                  /\ log' = Append(log, call)
                  /\ UNCHANGED <<result, err>>
  /\ UNCHANGED <<mdata, def, container, i, flags, caps, proc, proc0, refused>>

\* fchdir (newrootfd)
pivot_fchdir_new ==
  PivotStep("fchdir_new", FdCall("fchdir", fds.newrootfd), "fchdir",
            container.rootfs)

\* pivot_root (".", ".")
pivot_root ==
  PivotStep("pivot_root", PathCall("pivot_root", <<".", ".">>), "pivot_root",
            "")

\* fchdir (oldrootfd)
pivot_fchdir_old ==
  PivotStep("fchdir_old", FdCall("fchdir", fds.oldrootfd), "fchdir",
            container.rootfs)

\* mount ("", ".", "", MS_PRIVATE | MS_REC, "")
pivot_mount_rprivate ==
  PivotStep("mount_rprivate",
            MntCall("mount", "", <<".">>, "", BitOr(MS_PRIVATE, MS_REC),
                    <<"">>, -1),
            "mount oldroot rprivate", container.rootfs)

\* umount2 (".", MNT_DETACH)
pivot_umount ==
  PivotStep("umount", MntCall("umount2", "", <<".">>, "", MNT_DETACH, NoData, -1),
            "umount oldroot", "")

\* chdir ("/") and the return of 0.
pivot_chdir ==
  PivotStep("chdir", PathCall("chdir", <<"/">>), "chdir to newroot", "")

\* The longest mount list tried.
MaxMounts == 2

MountRequests ==
  {[destination |-> "/proc", type |-> "proc", source |-> NULL,
    has_options |-> FALSE, options |-> <<>>],
   [destination |-> "/dev/pts", type |-> "devpts", source |-> "devpts",
    has_options |-> FALSE, options |-> <<>>],
   [destination |-> "/sys/fs/cgroup", type |-> "cgroup", source |-> "cgroup",
    has_options |-> TRUE, options |-> <<"ro", "nosuid", "noexec">>],
   [destination |-> "/data", type |-> "bind", source |-> "/host/data",
    has_options |-> TRUE, options |-> <<"rbind", "ro", "size=1k">>],
   [destination |-> "/dev/shm", type |-> "tmpfs", source |-> NULL,
    has_options |-> TRUE,
    options |-> <<"nosuid", "mode=1777", "strictatime", "size=65536k">>]}

InitMounts ==
  /\ InitCommon
  /\ pc = "set_mounts"
  /\ i = 1
  /\ \E uid \in {0, 1000} :
       container = [NoContainer EXCEPT !.host_uid = uid, !.host_gid = uid,
                                       !.rootfs = "/run/crun/rootfs"]
  /\ \E ms \in SeqsUpTo(MountRequests, MaxMounts),
        prop \in {NULL, "rprivate", "shared", "bogus"} :
       def = [NoDef EXCEPT !.mounts = ms, !.rootfs_propagation = prop]
  /\ proc = InitProc
  /\ proc0 = proc

NextMounts ==
  \/ remount_root
  \/ mount_rootfs
  \/ ensure_directory
  \/ do_mount
  \/ do_mounts_end
  \/ pivot_open_old
  \/ pivot_open_new
  \/ pivot_fchdir_new
  \/ pivot_root
  \/ pivot_fchdir_old
  \/ pivot_mount_rprivate
  \/ pivot_umount
  \/ pivot_chdir

SpecMounts == InitMounts /\ [][NextMounts]_vars

\* libcrun_set_namespaces and libcrun_set_mounts: the entry points that
\* open descriptors.
SpecNsMounts ==
  (InitNamespaces \/ InitMounts) /\ [][NextNamespaces \/ NextMounts]_vars

----------------------------------------------------------------------------
(* The flags and the data string of one mount: lines 265-281 of do_mounts  *)
(* step by step, on the mount def.mounts[1], with i as the index j into    *)
(* its options, flags as `int flags' and mdata as `char *data'.            *)

\* flags = get_default_flags (container, destination, &data)
default_flags ==
  /\ pc = "mount_flags"
  /\ ~def.mounts[1].has_options
  /\ LET r == get_default_flags(container, def.mounts[1].destination)
     IN flags' = r.flags /\ mdata' = r.data
  /\ pc' = "mount_type"
  /\ UNCHANGED <<def, container, i, caps, fds, open_fds, proc, proc0, log,
                 sys, refused, result, err>>

\* flags |= get_mount_flags_or_option (options[j], &data)
fold_option ==
  /\ pc = "mount_flags"
  /\ def.mounts[1].has_options
  /\ i <= Len(def.mounts[1].options)
  /\ LET r == get_mount_flags_or_option(def.mounts[1].options[i], mdata)
     IN flags' = BitOr(flags, r.flags) /\ mdata' = r.option
  /\ i' = i + 1
  /\ UNCHANGED <<def, container, pc, caps, fds, open_fds, proc, proc0, log,
                 sys, refused, result, err>>

\* j reached options_len.
fold_end ==
  /\ pc = "mount_flags"
  /\ def.mounts[1].has_options
  /\ i > Len(def.mounts[1].options)
  /\ pc' = "mount_type"
  /\ UNCHANGED <<mdata, def, container, i, flags, caps, fds, open_fds, proc,
                 proc0, log, sys, refused, result, err>>

\* if (strcmp (type, "bind") == 0) flags |= MS_BIND; flags &= ~MS_RDONLY
mount_type_flags ==
  /\ pc = "mount_type"
  /\ flags' = BitAndNot(IF def.mounts[1].type = "bind"
                        THEN BitOr(flags, MS_BIND) ELSE flags, MS_RDONLY)
  /\ pc' = "mount_ready"
  /\ UNCHANGED <<mdata, def, container, i, caps, fds, open_fds, proc, proc0,
                 log, sys, refused, result, err>>

\* The longest option list tried.
MaxOptions == 3

\* Option tokens: of the table, and not ("" is the empty token).
OptionTokens ==
  {"ro", "nosuid", "noexec", "rprivate", "rbind", "size=1k", ""}

Destinations ==
  {"/proc", "/dev/cgroup", "/sys/fs/cgroup", "/dev", "/dev/shm",
   "/dev/mqueue", "/dev/pts", "/sys", "/data", "/dev/ptmx"}

InitMountFlags ==
  /\ InitCommon
  /\ pc = "mount_flags"
  /\ i = 1
  /\ \E uid \in {0, 1000}, gid \in {0, 5} :
       container = [NoContainer EXCEPT !.host_uid = uid, !.host_gid = gid,
                                       !.rootfs = "/run/crun/rootfs"]
  /\ \E type \in {"tmpfs", "bind", "cgroup"} :
       \/ \E dest \in Destinations, source \in {NULL, "/host/data"} :
            def = [NoDef EXCEPT !.mounts =
                     <<[destination |-> dest, type |-> type,
                        source |-> source, has_options |-> FALSE,
                        options |-> <<>>]>>]
       \/ \E dest \in {"/data", "/dev/shm"},
             opts \in SeqsUpTo(OptionTokens, MaxOptions) :
            def = [NoDef EXCEPT !.mounts =
                     <<[destination |-> dest, type |-> type,
                        source |-> NULL, has_options |-> TRUE,
                        options |-> opts]>>]
  /\ proc = InitProc
  /\ proc0 = proc

NextMountFlags ==
  \/ default_flags
  \/ fold_option
  \/ fold_end
  \/ mount_type_flags

SpecMountFlags == InitMountFlags /\ [][NextMountFlags]_vars

\* The steps above end with the flags and the data do_mount passes.
MountFlagsAgree ==
  pc = "mount_ready" =>
    /\ flags = mount_args(container, def.mounts[1]).flags
    /\ mdata = mount_args(container, def.mounts[1]).data

----------------------------------------------------------------------------
(* The user namespace: libcrun_set_usernamespace.                          *)
(*                                                                         *)
(* A string is the sequence of its characters, so that "%d" is a           *)
(* conversion and the length passed to write_file is a length.             *)

Digit(n) == CASE n = 0 -> "0" [] n = 1 -> "1" [] n = 2 -> "2" [] n = 3 -> "3"
              [] n = 4 -> "4" [] n = 5 -> "5" [] n = 6 -> "6" [] n = 7 -> "7"
              [] n = 8 -> "8" [] n = 9 -> "9"

\* "%d" of printf, for n >= 0.
RECURSIVE FormatInt(_)
FormatInt(n) ==
  IF n < 10 THEN <<Digit(n)>> ELSE Append(FormatInt(n \div 10), Digit(n % 10))

\* xasprintf (&uid_map, ...) of lines 336 and 341.
uid_map_string(c) ==
  IF c.host_uid = 0 THEN <<"0", " ", "0", " ", "6", "5", "5", "3", "6">>
  ELSE <<"0", " ">> \o FormatInt(c.host_uid) \o <<" ", "1">>

\* xasprintf (&gid_map, ...) of lines 337 and 342.
gid_map_string(c) ==
  IF c.host_uid = 0 THEN <<"0", " ", "0", " ", "6", "5", "5", "3", "6">>
  ELSE <<"0", " ">> \o FormatInt(c.host_gid) \o <<" ", "1">>

\* The test of line 348, which the gid_map write is under.
gid_map_written(c) == c.host_uid # 0

\* The step after the write of /proc/self/setgroups.
after_setgroups(c) == IF gid_map_written(c) THEN "gid_map" ELSE "uid_map"

\* One call of write_file (utils.c), as logged: the path, the content and
\* the length passed.
WriteCall(path, content, len) ==
  [op |-> "write_file", path |-> path, content |-> content, len |-> len]

\* write_file (utils.c) of outcome o: the bytes written to the file, or a
\* negative value and a message naming the file.
write_file(path, content, len, o) ==
  IF KRet(o) < 0
  THEN [ret |-> crun_static_error(o, "writing file", path).ret,
        err |-> crun_static_error(o, "writing file", path).err,
        written |-> <<>>]
  ELSE [ret |-> 0, err |-> NoErr, written |-> SubSeq(content, 1, len)]

\* One write of libcrun_set_usernamespace, to the file `file' of the
\* process: on failure the return of write_file's value, else on to `next'.
WriteStep_ignore_failure(at, path, file, content, next) ==
  /\ pc = at
  /\ \E o \in Outcomes :
       LET w == write_file(path, content, Len(content), o)
       IN /\ sys' = o
          /\ log' = Append(log, WriteCall(path, content, Len(content)))
          /\ pc' = next
          /\ proc' = IF w.ret < 0 THEN proc
                     ELSE [proc EXCEPT ![file] = w.written]
          /\ UNCHANGED <<result, err>>
  /\ UNCHANGED <<mdata, def, container, i, flags, caps, fds, open_fds, proc0,
                 refused>>

WriteStep(at, path, file, content, next) ==
  /\ pc = at
  /\ \E o \in Outcomes :
       LET w == write_file(path, content, Len(content), o)
       IN /\ sys' = o
          /\ log' = Append(log, WriteCall(path, content, Len(content)))
          /\ IF w.ret < 0
             THEN Return(w.ret, w.err) /\ UNCHANGED proc
             ELSE /\ pc' = next
                  /\ proc' = [proc EXCEPT ![file] = w.written]
                  /\ UNCHANGED <<result, err>>
  /\ UNCHANGED <<mdata, def, container, i, flags, caps, fds, open_fds, proc0,
                 refused>>

\* write_file ("/proc/self/setgroups", "deny", 4, err)
write_setgroups ==
  WriteStep("set_usernamespace", "/proc/self/setgroups", "setgroups",
            <<"d", "e", "n", "y">>, after_setgroups(container))

\* write_file ("/proc/self/gid_map", gid_map, gid_map_len, err)
write_gid_map ==
  WriteStep("gid_map", "/proc/self/gid_map", "gid_map",
            gid_map_string(container), "uid_map")

\* write_file ("/proc/self/uid_map", uid_map, uid_map_len, err)
write_uid_map ==
  WriteStep("uid_map", "/proc/self/uid_map", "uid_map",
            uid_map_string(container), "set_usernamespace_end")

\* The values a function that ends without a return statement may hand to
\* its caller: the value is undefined.
UndefinedReturn == {-1, 0, 1}

\* The end of libcrun_set_usernamespace: no return statement (line 358).
set_usernamespace_end ==
  /\ pc = "set_usernamespace_end"
  /\ \E ret \in UndefinedReturn : Return(ret, err)
  /\ UNCHANGED <<mdata, def, container, i, flags, caps, fds, open_fds, proc,
                 proc0, log, sys, refused>>

\* The host identities tried.
HostIds == {0, 7, 100, 1000}

InitUsernamespace ==
  /\ InitCommon
  /\ pc = "set_usernamespace"
  /\ i = 0
  /\ \E uid \in HostIds, gid \in HostIds :
       container = [NoContainer EXCEPT !.host_uid = uid, !.host_gid = gid]
  /\ def = NoDef
  /\ proc = InitProc
  /\ proc0 = proc

NextUsernamespace ==
  \/ write_setgroups
  \/ write_gid_map
  \/ write_uid_map
  \/ set_usernamespace_end

SpecUsernamespace == InitUsernamespace /\ [][NextUsernamespace]_vars

----------------------------------------------------------------------------
(* Resource limits: get_rlimit_resource, libcrun_set_rlimits. *)

\* The resource numbers of <sys/resource.h>.
RLIMIT_CPU == 0
RLIMIT_FSIZE == 1
RLIMIT_DATA == 2
RLIMIT_STACK == 3
RLIMIT_CORE == 4
RLIMIT_RSS == 5
RLIMIT_NPROC == 6
RLIMIT_NOFILE == 7
RLIMIT_MEMLOCK == 8
RLIMIT_AS == 9
RLIMIT_LOCKS == 10
RLIMIT_SIGPENDING == 11
RLIMIT_MSGQUEUE == 12
RLIMIT_NICE == 13
RLIMIT_RTPRIO == 14
RLIMIT_RTTIME == 15

\* struct rlimit_s rlimits[]
rlimits ==
  <<[name |-> "RLIMIT_AS", value |-> RLIMIT_AS],
    [name |-> "RLIMIT_CORE", value |-> RLIMIT_CORE],
    [name |-> "RLIMIT_CPU", value |-> RLIMIT_CPU],
    [name |-> "RLIMIT_DATA", value |-> RLIMIT_DATA],
    [name |-> "RLIMIT_FSIZE", value |-> RLIMIT_FSIZE],
    [name |-> "RLIMIT_LOCKS", value |-> RLIMIT_LOCKS],
    [name |-> "RLIMIT_MEMLOCK", value |-> RLIMIT_MEMLOCK],
    [name |-> "RLIMIT_MSGQUEUE", value |-> RLIMIT_MSGQUEUE],
    [name |-> "RLIMIT_NICE", value |-> RLIMIT_NICE],
    [name |-> "RLIMIT_NOFILE", value |-> RLIMIT_NOFILE],
    [name |-> "RLIMIT_NPROC", value |-> RLIMIT_NPROC],
    [name |-> "RLIMIT_RSS", value |-> RLIMIT_RSS],
    [name |-> "RLIMIT_RTPRIO", value |-> RLIMIT_RTPRIO],
    [name |-> "RLIMIT_RTTIME", value |-> RLIMIT_RTTIME],
    [name |-> "RLIMIT_SIGPENDING", value |-> RLIMIT_SIGPENDING],
    [name |-> "RLIMIT_STACK", value |-> RLIMIT_STACK]>>

get_rlimit_resource(name) == find_in_table(rlimits, name, 1, -1)

\* struct rlimit limit of a request: rlim_cur = soft, rlim_max = hard.
rlimit_of_swapped(request) ==
  [rlim_cur |-> request.hard, rlim_max |-> request.soft]

rlimit_of(request) == [rlim_cur |-> request.soft, rlim_max |-> request.hard]

\* One call of setrlimit, as logged.
RlimitCall(resource, limit) ==
  [op |-> "setrlimit", resource |-> resource, limit |-> limit]

\* libcrun_set_rlimits up to the loop: nothing to do without a list.
set_rlimits_entry ==
  /\ pc = "set_rlimits"
  /\ IF ~def.has_rlimits
     THEN Return(0, err) /\ UNCHANGED i
     ELSE pc' = "rlimit" /\ i' = 1 /\ UNCHANGED <<result, err>>
  /\ UNCHANGED <<mdata, def, container, flags, caps, fds, open_fds, proc,
                 proc0, log, sys, refused>>

\* One iteration of the loop: the resource of the name, and setrlimit.
set_rlimit ==
  /\ pc = "rlimit"
  /\ i <= Len(def.rlimits)
  /\ LET type == def.rlimits[i].type
         resource == get_rlimit_resource(type)
         limit == rlimit_of(def.rlimits[i])
     IN IF resource < 0
        THEN /\ Return(crun_static_error("0", "invalid rlimit", type).ret,
                       crun_static_error("0", "invalid rlimit", type).err)
             /\ UNCHANGED <<i, proc, log, sys>>
        ELSE \E o \in Outcomes :
               /\ sys' = o
               /\ log' = Append(log, RlimitCall(resource, limit))
               /\ IF KRet(o) < 0
                  THEN /\ Return(crun_static_error(o, "setrlimit", type).ret,
                                 crun_static_error(o, "setrlimit", type).err)
                       /\ UNCHANGED <<i, proc>>
                  ELSE /\ proc' = [proc EXCEPT !.rlimits[resource] = limit]
                       /\ i' = i + 1
                       /\ UNCHANGED <<pc, result, err>>
  /\ UNCHANGED <<mdata, def, container, flags, caps, fds, open_fds, proc0,
                 refused>>

\* The end of libcrun_set_rlimits: no return statement (line 543).
set_rlimits_end ==
  /\ pc = "rlimit"
  /\ i > Len(def.rlimits)
  /\ \E ret \in UndefinedReturn : Return(ret, err)
  /\ UNCHANGED <<mdata, def, container, i, flags, caps, fds, open_fds, proc,
                 proc0, log, sys, refused>>

\* The longest rlimit list tried.
MaxRlimits == 3

RlimitRequests ==
  {[type |-> "RLIMIT_NOFILE", soft |-> 100, hard |-> 200],
   [type |-> "RLIMIT_NOFILE", soft |-> 1024, hard |-> 4096],
   [type |-> "RLIMIT_CPU", soft |-> 60, hard |-> 30],
   [type |-> "RLIMIT_STACK", soft |-> 8192, hard |-> 8192],
   [type |-> "BOGUS", soft |-> 1, hard |-> 2],
   [type |-> "NOFILE", soft |-> 100, hard |-> 200]}

InitRlimits ==
  /\ InitCommon
  /\ pc = "set_rlimits"
  /\ i = 0
  /\ container = NoContainer
  /\ \E has \in BOOLEAN :
       \E rs \in (IF has THEN SeqsUpTo(RlimitRequests, MaxRlimits)
                         ELSE {<<>>}) :
         def = [NoDef EXCEPT !.has_rlimits = has, !.rlimits = rs]
  /\ proc = InitProc
  /\ proc0 = proc

NextRlimits ==
  \/ set_rlimits_entry
  \/ set_rlimit
  \/ set_rlimits_end

SpecRlimits == InitRlimits /\ [][NextRlimits]_vars

----------------------------------------------------------------------------
(* The five entry points, each called on its own. *)

InitEntryPoints ==
  \/ InitNamespaces
  \/ InitMounts
  \/ InitUsernamespace
  \/ InitCaps
  \/ InitRlimits

NextEntryPoints ==
  \/ NextNamespaces
  \/ NextMounts
  \/ NextUsernamespace
  \/ NextCaps
  \/ NextRlimits

SpecEntryPoints == InitEntryPoints /\ [][NextEntryPoints]_vars

\* The entry points whose every kernel failure is returned at once.
InitFatalOnly ==
  \/ InitNamespaces
  \/ InitMounts
  \/ InitUsernamespace
  \/ InitRlimits

NextFatalOnly ==
  \/ NextNamespaces
  \/ NextMounts
  \/ NextUsernamespace
  \/ NextRlimits

SpecFatalOnly == InitFatalOnly /\ [][NextFatalOnly]_vars

----------------------------------------------------------------------------
(* Claims about libcrun_set_caps, stated on the request, not on caps. *)

Returned == pc = "done"
Succeeded == pc = "done" /\ result = 0
Failed == pc = "done" /\ result < 0

IsPrefix(s, t) == Len(s) <= Len(t) /\ \A k \in 1..Len(s) : s[k] = t[k]

\* The capability numbers a category of the request names.
Requested(cat) ==
  IF def.has_capabilities
  THEN {cap_from_name(def.capabilities[cat][k]) :
          k \in 1..Len(def.capabilities[cat])}
  ELSE {}

AllCapsResolve ==
  \A k \in 1..Len(CapCategories) : \A c \in Requested(CapCategories[k]) : c >= 0

\* The capability numbers of S in increasing order.
Ascending(S) ==
  LET In(c) == c \in S
  IN SelectSeq([k \in 1..(CAP_LAST_CAP + 1) |-> k - 1], In)

MaskOf(S) == <<{c \in S : c < 32}, {c - 32 : c \in {x \in S : x >= 32}}>>

ExpectedCapsLog ==
  LET raise == Ascending(Requested("ambient"))
      drop == Ascending((0..CAP_LAST_CAP) \ Requested("bounding"))
      data == [effective |-> MaskOf(Requested("effective")),
               permitted |-> MaskOf(Requested("permitted")),
               inheritable |-> MaskOf(Requested("inheritable"))]
  IN <<KCall("ambient_clear_all", -1, ZeroData)>>
     \o [k \in 1..Len(raise) |-> KCall("ambient_raise", raise[k], ZeroData)]
     \o [k \in 1..Len(drop) |-> KCall("bounding_drop", drop[k], ZeroData)]
     \o <<KCall("capset", -1, data)>>
     \o (IF def.no_new_privileges
         THEN <<KCall("no_new_privs", -1, ZeroData)>> ELSE <<>>)

\* C1: when all names resolve, the kernel calls of libcrun_set_caps are, in
\* this order, one ambient clear-all, one raise per requested ambient
\* capability (none for another), one bounding drop per capability not in
\* the requested bounding mask (none for one in it), one capset with the
\* requested effective, permitted and inheritable masks, and no-new-privs
\* iff requested: the calls issued are always a prefix of that sequence, and
\* the whole of it when the function returns success.
C1_CapsOrder ==
  AllCapsResolve =>
    /\ IsPrefix(log, ExpectedCapsLog)
    /\ Succeeded => log = ExpectedCapsLog

C1_Witness ==
  /\ Succeeded
  /\ def.no_new_privileges
  /\ Requested("ambient") = {10, 37}
  /\ Requested("bounding") = {10, 35}
  /\ Len(log) = 41

\* C2: a failed capset is a fatal error (no no-new-privs call, no success),
\* and so is a failed no-new-privs prctl.
C2_CapsetFatal ==
  [][(pc \in {"capset", "no_new_privs"} /\ sys' # "OK")
       => (pc' = "done" /\ result' < 0)]_vars

\* C3, as claimed: after success the bounding set is a subset of its value
\* before the call and holds only capabilities of the requested mask.
C3_BoundingOnlyRequested ==
  Succeeded =>
    /\ proc.bounding \subseteq proc0.bounding
    /\ proc.bounding \subseteq Requested("bounding")

RefusedCaps(op) == {r.cap : r \in {x \in refused : x.op = op}}

\* C3, amended: the bounding set never grows, and after success it holds,
\* outside the requested mask, only capabilities whose drop the kernel
\* refused with EINVAL or EPERM.
C3_BoundingShrinks ==
  /\ proc.bounding \subseteq proc0.bounding
  /\ Succeeded =>
       proc.bounding \ Requested("bounding") \subseteq RefusedCaps("bounding_drop")

C3_Witness ==
  /\ Succeeded
  /\ RefusedCaps("bounding_drop") # {}
  /\ proc.bounding # proc0.bounding
  /\ proc.bounding \ Requested("bounding") # {}

\* C4, as claimed: after success the ambient set holds no capability outside
\* the requested ambient mask.
C4_NoAmbientLeftOver ==
  Succeeded => proc.ambient \subseteq Requested("ambient")

\* C4, amended: after a success in which the kernel did not refuse the
\* ambient clear-all, the ambient set holds no capability outside the
\* requested ambient mask.
C4_NoAmbientLeftOverIfCleared ==
  (Succeeded /\ RefusedCaps("ambient_clear_all") = {})
    => proc.ambient \subseteq Requested("ambient")

C4_Witness ==
  /\ Succeeded
  /\ RefusedCaps("ambient_clear_all") = {}
  /\ proc0.ambient = {10, 35}
  /\ proc.ambient = {10}

\* The calls of steps 1 to 3, where EINVAL and EPERM are let through.
TolerantSite ==
  /\ pc \in {"ambient_clear", "ambient_raise", "bounding_drop"}
  /\ log' # log

\* C5, the tolerant call sites: EINVAL or EPERM does not abort (the loop goes
\* on with the next capability, or the next step starts), any other errno
\* aborts with a fatal error; nothing is issued after the return.
C5_TolerantSites ==
  [][/\ (TolerantSite /\ sys' \in {EINVAL, EPERM}) =>
          /\ pc' # "done"
          /\ \/ pc' = pc /\ i' = i + 1
             \/ pc = "ambient_clear" /\ pc' = "ambient_raise" /\ i' = 0
             \/ pc = "ambient_raise" /\ i = CAP_LAST_CAP
                  /\ pc' = "bounding_drop" /\ i' = 0
             \/ pc = "bounding_drop" /\ i = CAP_LAST_CAP /\ pc' = "capset"
     /\ (TolerantSite /\ sys' = ENOMEM) => (pc' = "done" /\ result' < 0)
     /\ pc = "done" => log' = log]_vars

\* C5: C5_TolerantSites, and the tolerance is of these three call sites
\* only: EINVAL or EPERM from capset or from the no-new-privs prctl is fatal.
C5_ToleranceOnlyThere ==
  [][/\ (TolerantSite /\ sys' \in {EINVAL, EPERM}) => pc' # "done"
     /\ (TolerantSite /\ sys' = ENOMEM) => (pc' = "done" /\ result' < 0)
     /\ pc = "done" => log' = log
     /\ (pc \in {"capset", "no_new_privs"} /\ sys' \in {EINVAL, EPERM})
          => (pc' = "done" /\ result' < 0)]_vars

----------------------------------------------------------------------------
(* Claims about libcrun_set_namespaces, stated on the request list. *)

NsTypeFlag ==
  [mount |-> CLONE_NEWNS, cgroup |-> CLONE_NEWCGROUP, network |-> CLONE_NEWNET,
   ipc |-> CLONE_NEWIPC, pid |-> CLONE_NEWPID, uts |-> CLONE_NEWUTS,
   user |-> CLONE_NEWUSER]

BadNsIndexes ==
  {k \in 1..Len(def.namespaces) : def.namespaces[k].type \notin DOMAIN NsTypeFlag}

AllNsRecognized == BadNsIndexes = {}

FirstBadNsType ==
  def.namespaces[CHOOSE k \in BadNsIndexes : \A m \in BadNsIndexes : k <= m].type

\* C6: a request list with a type outside {mount, cgroup, network, ipc, pid,
\* uts, user} makes libcrun_set_namespaces fail with "invalid namespace
\* type", naming the first such type of the list.
C6_InvalidNamespaceType ==
  (~AllNsRecognized /\ Returned) =>
    /\ result < 0
    /\ err.msg = "invalid namespace type"
    /\ err.arg = FirstBadNsType

C6_Witness ==
  /\ Failed
  /\ Len(def.namespaces) = 3
  /\ def.namespaces[1].type = "network"
  /\ def.namespaces[2].type = "net"
  /\ def.namespaces[3].type = "bogus"
  /\ err.arg = "net"

RECURSIVE SumOf(_)
SumOf(S) ==
  IF S = {} THEN 0
  ELSE LET x == CHOOSE y \in S : TRUE IN x + SumOf(S \ {x})

\* The bitwise OR of the flags of the requests: the flags are distinct
\* single bits, so it is the sum of the distinct ones.
ExpectedUnshareFlags ==
  SumOf({NsTypeFlag[def.namespaces[k].type] : k \in 1..Len(def.namespaces)})

UnshareCalls == {k \in 1..Len(log) : log[k].op = "unshare"}

\* C7: when every type is recognized there is one unshare call, its
\* argument is the OR of the flags of all the requests (those with a join
\* path too), and container->unshare_flags holds the same value.
C7_UnshareFlags ==
  AllNsRecognized =>
    /\ Cardinality(UnshareCalls) <= 1
    /\ \A k \in UnshareCalls : log[k].flags = ExpectedUnshareFlags
    /\ pc # "set_namespaces" =>
         /\ Cardinality(UnshareCalls) = 1
         /\ container.unshare_flags = ExpectedUnshareFlags

C7_Witness ==
  /\ Succeeded
  /\ Len(def.namespaces) = 3
  /\ def.namespaces[1] = [type |-> "network", path |-> "/proc/1/ns/net"]
  /\ def.namespaces[2] = [type |-> "user", path |-> "/proc/7/ns/user"]
  /\ def.namespaces[3] = [type |-> "network", path |-> NULL]
  /\ container.unshare_flags = CLONE_NEWNET + CLONE_NEWUSER

\* The calls of the joins of the requests from the k-th on.
RECURSIVE ExpectedJoins(_)
ExpectedJoins(k) ==
  IF k > Len(def.namespaces) THEN <<>>
  ELSE LET ns == def.namespaces[k]
       IN (IF ns.path = NULL THEN <<>>
           ELSE <<NsCall("open", ns.path, -1, 0),
                  NsCall("setns", ns.path, NewFd({}), NsTypeFlag[ns.type]),
                  NsCall("close", "", NewFd({}), 0)>>)
          \o ExpectedJoins(k + 1)

ExpectedNsLog ==
  <<NsCall("unshare", "", -1, ExpectedUnshareFlags)>> \o ExpectedJoins(1)

\* C8: the joins (open of the path, setns with the flag of the request's
\* type, then the close) come after the unshare, in list order, for the
\* requests with a path only; a failed unshare, open or setns ends the run,
\* a failed open or setns with an error naming the path of the request.
C8_JoinOrder ==
  /\ [](AllNsRecognized =>
          /\ IsPrefix(log, ExpectedNsLog)
          /\ Succeeded => log = ExpectedNsLog)
  /\ [][/\ (pc \in {"set_namespaces", "join", "setns"} /\ log' # log
              /\ sys' # "OK")
            => (pc' = "done" /\ result' < 0)
        /\ (pc \in {"join", "setns"} /\ log' # log /\ sys' # "OK")
            => (/\ err'.arg = def.namespaces[i].path
                /\ err'.msg = (IF pc = "join" THEN "open" ELSE "setns"))
        /\ (pc \in {"join", "setns"} /\ log' # log /\ sys' = "OK")
            => (pc' \in {"join", "setns"})
        /\ pc = "done" => log' = log]_vars

C8_Witness ==
  /\ Failed
  /\ err.msg = "setns"
  /\ err.arg = "/proc/7/ns/user"
  /\ Len(def.namespaces) = 3
  /\ def.namespaces[2].path = NULL
  /\ Len(log) = 7

----------------------------------------------------------------------------
(* Claims about descriptors and about the order of libcrun_set_mounts. *)

\* C9: at every return of libcrun_set_namespaces and of do_pivot (through
\* libcrun_set_mounts), on success and on every error path, no descriptor
\* the function opened is still open.
C9_NoDescriptorLeft == Returned => open_fds = {}

C9_Witness ==
  /\ Failed
  /\ err.msg = "open"
  /\ err.arg = container.rootfs
  /\ Len(log) >= 2
  /\ log[Len(log) - 1].op = "open"
  /\ log[Len(log)] = FdCall("close", NewFd({}))
  /\ open_fds = {}

\* What of a logged call says which operation it is.
CallShape(c) == [op |-> c.op, target |-> c.target, fd |-> c.fd]
Shape(op, target, fd) == [op |-> op, target |-> target, fd |-> fd]

\* The calls logged but the closes, as shapes.
MountCalls ==
  LET NotClose(c) == c.op # "close"
      calls == SelectSeq(log, NotClose)
  IN [k \in 1..Len(calls) |-> CallShape(calls[k])]

\* The calls of the mount plan from the k-th request on: the directory of
\* the target, then the mount (none for type cgroup).
RECURSIVE ExpectedPlan(_)
ExpectedPlan(k) ==
  IF k > Len(def.mounts) THEN <<>>
  ELSE LET t == <<container.rootfs, "/", def.mounts[k].destination>>
       IN <<Shape("ensure_directory", t, -1)>>
          \o (IF def.mounts[k].type = "cgroup" THEN <<>>
              ELSE <<Shape("mount", t, -1)>>)
          \o ExpectedPlan(k + 1)

ExpectedMountCalls ==
  <<Shape("mount", <<"/">>, -1), Shape("mount", <<container.rootfs>>, -1)>>
  \o ExpectedPlan(1)
  \o <<Shape("open", <<"/">>, -1), Shape("open", <<container.rootfs>>, -1),
       Shape("fchdir", <<>>, NewFd({NewFd({})})),
       Shape("pivot_root", <<".", ".">>, -1),
       Shape("fchdir", <<>>, NewFd({})),
       Shape("mount", <<".">>, -1), Shape("umount2", <<".">>, -1),
       Shape("chdir", <<"/">>, -1)>>

\* C10: the calls of libcrun_set_mounts are, in this order, the remount of
\* "/", the bind of the rootfs, the mounts of the plan (each after the
\* directory of its target), the opens of the old and the new root, fchdir
\* to the new root, pivot_root, fchdir to the old root, the private remount
\* of ".", the detach of "." and chdir("/"); a call is issued only while
\* every call before it succeeded (the open of the new root alone follows
\* the open of the old root whatever its outcome).
C10_MountOrder ==
  /\ IsPrefix(MountCalls, ExpectedMountCalls)
  /\ Succeeded => MountCalls = ExpectedMountCalls
  /\ pc \notin {"done", "pivot_open_new"} => sys = "OK"
  /\ (pc = "pivot_open_new" /\ sys # "OK") => fds.oldrootfd < 0

C10_Witness ==
  /\ Succeeded
  /\ Len(def.mounts) = 2
  /\ def.mounts[1].type = "cgroup"
  /\ def.mounts[2].type = "bind"
  /\ Len(MountCalls) = Len(ExpectedMountCalls)
  /\ Len(log) = 15


----------------------------------------------------------------------------
(* Claims about the rootfs propagation of libcrun_set_mounts. *)

\* The propagation modes of the lookup table (lines 110-116).
PropagationModes ==
  {"rshared", "rslave", "rprivate", "shared", "slave", "private",
   "unbindable"}

UnknownPropagation ==
  def.rootfs_propagation # NULL /\ def.rootfs_propagation \notin PropagationModes

\* C11: an explicit rootfsPropagation name that is not a propagation mode of
\* the table is a fatal configuration error: libcrun_set_mounts issues no
\* mount with it, and returns a failure.
C11_UnknownPropagationFatal ==
  UnknownPropagation => log = <<>> /\ (Returned => result < 0)

----------------------------------------------------------------------------
(* Claims about libcrun_set_usernamespace. *)

WritesTo(path) == {k \in 1..Len(log) : log[k].path = path}

Deny == <<"d", "e", "n", "y">>

\* C12: "deny" is written to /proc/self/setgroups before any write to
\* gid_map, a gid_map write comes before the uid_map write, and a failing
\* write ends the run with a failure: no file is written after it.
C12_WriteOrder ==
  /\ [](/\ \A g \in WritesTo("/proc/self/gid_map") :
             \E d \in WritesTo("/proc/self/setgroups") :
               d < g /\ log[d].content = Deny /\ log[d].len = 4
        /\ \A u \in WritesTo("/proc/self/uid_map") :
             /\ \E d \in WritesTo("/proc/self/setgroups") : d < u
             /\ \A g \in WritesTo("/proc/self/gid_map") : g < u
        /\ (log # <<>> /\ sys # "OK") => Failed)
  /\ [][/\ (log' # log /\ sys' # "OK")
              => (pc' = "done" /\ result' < 0 /\ proc' = proc)
        /\ (log # <<>> /\ sys # "OK") => log' = log]_vars

C12_Witness ==
  /\ Failed
  /\ Len(log) = 2
  /\ log[2].path = "/proc/self/gid_map"
  /\ proc.setgroups = Deny
  /\ proc.uid_map = <<>>

\* What the spec gives as the content of uid_map and of gid_map.
FullRange == <<"0", " ", "0", " ", "6", "5", "5", "3", "6">>

OneId(id) ==
  CASE id = 0 -> <<"0", " ", "0", " ", "1">>
    [] id = 7 -> <<"0", " ", "7", " ", "1">>
    [] id = 100 -> <<"0", " ", "1", "0", "0", " ", "1">>
    [] id = 1000 -> <<"0", " ", "1", "0", "0", "0", " ", "1">>

AllWritesOk ==
  /\ pc \in {"set_usernamespace_end", "done"}
  /\ sys = "OK"
  /\ log # <<>>

\* C13: for every host identity, a run in which no write fails writes each
\* of setgroups, uid_map and gid_map exactly once, gid_map with "0 0 65536"
\* when hostUid = 0 and "0 <hostGid> 1" otherwise, uid_map with "0 0 65536"
\* when hostUid = 0 and "0 <hostUid> 1" otherwise.
C13_EachWrittenOnce ==
  AllWritesOk =>
    /\ \A path \in {"/proc/self/setgroups", "/proc/self/uid_map",
                    "/proc/self/gid_map"} : Cardinality(WritesTo(path)) = 1
    /\ \A g \in WritesTo("/proc/self/gid_map") :
         /\ log[g].content = IF container.host_uid = 0 THEN FullRange
                             ELSE OneId(container.host_gid)
         /\ log[g].len = Len(log[g].content)
    /\ \A u \in WritesTo("/proc/self/uid_map") :
         /\ log[u].content = IF container.host_uid = 0 THEN FullRange
                             ELSE OneId(container.host_uid)
         /\ log[u].len = Len(log[u].content)

\* C13 for the unprivileged host identities, which the code satisfies.
C13_EachWrittenOnceUnprivileged ==
  container.host_uid # 0 => C13_EachWrittenOnce

----------------------------------------------------------------------------
(* Claims about the flags and the data string of a mount. *)

\* The set bits of a flag word.
Bits(n) == {b \in 0..30 : (n \div (2 ^ b)) % 2 = 1}

TableIndexes(name) ==
  {k \in 1..Len(propagation_flags) : propagation_flags[k].name = name}

InTable(name) == TableIndexes(name) # {}

TableBits(name) ==
  UNION {Bits(propagation_flags[k].value) : k \in TableIndexes(name)}

NotInTable(name) == ~InTable(name)

RECURSIVE JoinCommas(_)
JoinCommas(tokens) ==
  IF tokens = <<>> THEN <<>>
  ELSE IF Len(tokens) = 1 THEN <<tokens[1]>>
  ELSE <<tokens[1], ",">> \o JoinCommas(Tail(tokens))

\* The options folded so far.
Folded == SubSeq(def.mounts[1].options, 1, i - 1)

\* C14: folding the option tokens left to right gives the flags that are
\* the OR of the table flags of the tokens found in the table, and the data
\* string that is the other tokens joined by commas in input order (none
\* when there are none); each token adds to exactly one of the two.
C14_OptionFold ==
  /\ []((pc \in {"mount_flags", "mount_type"} /\ def.mounts[1].has_options) =>
          /\ Bits(flags) = UNION {TableBits(Folded[k]) :
                                    k \in {x \in 1..Len(Folded) :
                                             InTable(Folded[x])}}
          /\ mdata = JoinCommas(SelectSeq(Folded, NotInTable))
          /\ pc = "mount_type" => Folded = def.mounts[1].options)
  /\ [][(pc = "mount_flags" /\ i' = i + 1) =>
          LET token == def.mounts[1].options[i]
          IN IF InTable(token)
             THEN /\ mdata' = mdata
                  /\ Bits(flags') = Bits(flags) \cup TableBits(token)
                  /\ TableBits(token) # {}
             ELSE /\ flags' = flags
                  /\ mdata' # mdata
                  /\ mdata'[Len(mdata')] = token]_vars

C14_Witness ==
  /\ pc = "mount_type"
  /\ def.mounts[1].options = <<"size=1k", "ro", "">>
  /\ mdata = <<"size=1k", ",", "">>
  /\ flags = MS_RDONLY

\* The table of default flags and data of the spec, by destination.
DefaultBits(destination) ==
  CASE destination \in {"/dev/cgroup", "/sys/fs/cgroup"}
         -> Bits(MS_NOEXEC) \cup Bits(MS_NOSUID) \cup Bits(MS_STRICTATIME)
    [] destination = "/dev" -> Bits(MS_NOEXEC) \cup Bits(MS_STRICTATIME)
    [] destination \in {"/dev/shm", "/dev/mqueue", "/sys"}
         -> Bits(MS_NOEXEC) \cup Bits(MS_NOSUID) \cup Bits(MS_NODEV)
    [] destination = "/dev/pts" -> Bits(MS_NOEXEC) \cup Bits(MS_NOSUID)
    [] OTHER -> {}

DefaultData(destination, privileged) ==
  CASE destination \in {"/dev/cgroup", "/sys/fs/cgroup"} -> <<"none,name=">>
    [] destination = "/dev" -> <<"mode=755">>
    [] destination = "/dev/shm" -> <<"mode=1777,size=65536k">>
    [] destination = "/dev/pts"
         -> IF privileged THEN <<"newinstance,ptmxmode=0666,mode=620,gid=5">>
            ELSE <<"newinstance,ptmxmode=0666,mode=620">>
    [] OTHER -> <<>>

\* C15: without explicit options the derived flags and data are those of
\* the table for the destination, gid=5 being in the /dev/pts data exactly
\* when hostUid = 0: they depend on nothing else.
C15_DefaultFlags ==
  (pc = "mount_type" /\ ~def.mounts[1].has_options) =>
    /\ Bits(flags) = DefaultBits(def.mounts[1].destination)
    /\ mdata = DefaultData(def.mounts[1].destination, container.host_uid = 0)

C15_Witness ==
  /\ pc = "mount_type"
  /\ ~def.mounts[1].has_options
  /\ def.mounts[1].destination = "/dev/pts"
  /\ def.mounts[1].type = "bind"
  /\ container.host_uid = 1000
  /\ container.host_gid = 5
  /\ flags = 10
  /\ mdata = <<"newinstance,ptmxmode=0666,mode=620">>

----------------------------------------------------------------------------
(* Claims about libcrun_set_rlimits. *)

RlimitNames == {rlimits[k].name : k \in 1..Len(rlimits)}

ResourceNamed(name) ==
  CHOOSE r \in 0..15 : \E k \in 1..Len(rlimits) :
    rlimits[k].name = name /\ rlimits[k].value = r

\* The first request whose name is not in the table, or one past the list.
FirstBadRlimit ==
  CHOOSE k \in 1..(Len(def.rlimits) + 1) :
    /\ k <= Len(def.rlimits) => def.rlimits[k].type \notin RlimitNames
    /\ \A j \in 1..(k - 1) : def.rlimits[j].type \in RlimitNames

ExpectedRlimitCalls ==
  [k \in 1..(FirstBadRlimit - 1) |->
     [op |-> "setrlimit", resource |-> ResourceNamed(def.rlimits[k].type),
      limit |-> [rlim_cur |-> def.rlimits[k].soft,
                 rlim_max |-> def.rlimits[k].hard]]]

RequestsNaming(r) ==
  {k \in 1..Len(def.rlimits) :
     def.rlimits[k].type \in RlimitNames
     /\ ResourceNamed(def.rlimits[k].type) = r}

LastNaming(r) ==
  CHOOSE k \in RequestsNaming(r) : \A j \in RequestsNaming(r) : j <= k

\* C17: the requests are applied in list order, one setrlimit each with the
\* requested (soft, hard), so that after success each requested resource
\* has the limit of the last request naming it; the first unknown name
\* fails with "invalid rlimit" naming it, the first failing setrlimit fails
\* naming the resource, and nothing is applied after either; an absent list
\* issues no setrlimit and succeeds.
C17_RlimitsInOrder ==
  /\ [](/\ IsPrefix(log, ExpectedRlimitCalls)
        /\ Succeeded =>
             /\ log = ExpectedRlimitCalls
             /\ \A r \in 0..15 :
                  proc.rlimits[r] =
                    IF RequestsNaming(r) = {} THEN proc0.rlimits[r]
                    ELSE [rlim_cur |-> def.rlimits[LastNaming(r)].soft,
                          rlim_max |-> def.rlimits[LastNaming(r)].hard]
        /\ ~def.has_rlimits => log = <<>> /\ (Returned => result = 0))
  /\ [][/\ (pc = "rlimit" /\ i = FirstBadRlimit /\ i <= Len(def.rlimits))
              => /\ pc' = "done" /\ result' < 0
                 /\ err'.msg = "invalid rlimit"
                 /\ err'.arg = def.rlimits[i].type
                 /\ log' = log /\ proc' = proc
        /\ (log' # log /\ sys' # "OK")
              => /\ pc' = "done" /\ result' < 0
                 /\ err'.msg = "setrlimit"
                 /\ err'.arg = def.rlimits[i].type
                 /\ proc' = proc
        /\ (pc = "set_rlimits" /\ ~def.has_rlimits) => pc' = "done"
        /\ pc = "done" => (log' = log /\ proc' = proc)]_vars

C17_Witness ==
  /\ Succeeded
  /\ Len(def.rlimits) = 3
  /\ def.rlimits[1] = [type |-> "RLIMIT_NOFILE", soft |-> 100, hard |-> 200]
  /\ def.rlimits[2].type = "RLIMIT_CPU"
  /\ def.rlimits[3].type = "RLIMIT_NOFILE"
  /\ proc.rlimits[RLIMIT_NOFILE] = [rlim_cur |-> 1024, rlim_max |-> 4096]
  /\ proc.rlimits[RLIMIT_CPU] = [rlim_cur |-> 60, rlim_max |-> 30]

----------------------------------------------------------------------------
(* Claims about the results of the entry points. *)

AllRlimitsResolve ==
  \A k \in 1..Len(def.rlimits) : def.rlimits[k].type \in RlimitNames

NamesResolved == AllNsRecognized /\ AllCapsResolve /\ AllRlimitsResolve

\* The last kernel call issued, of the entry point whose first call is
\* `first', succeeded.
LastCallOk(first) == log # <<>> /\ log[1].op = first /\ sys = "OK"

\* C16: each entry point returns 0 or a negative value, a negative value
\* with the message of the failure and whenever a name did not resolve;
\* libcrun_set_mounts goes on to the pivot when the remount, the rootfs
\* bind and the mounts of the plan succeeded; libcrun_set_usernamespace and
\* libcrun_set_rlimits return 0 after their last operation succeeded.
C16_DefiniteResult ==
  Returned =>
    /\ result <= 0
    /\ result < 0 => err # NoErr
    /\ ~NamesResolved => result < 0
    /\ LastCallOk("mount") => \E k \in 1..Len(log) : log[k].op = "open"
    /\ (LastCallOk("write_file")
          /\ log[Len(log)].path = "/proc/self/uid_map") => result = 0
    /\ (LastCallOk("setrlimit") /\ Len(log) = Len(def.rlimits)) => result = 0

----------------------------------------------------------------------------
(* Claims about what follows a failed kernel call. *)

\* The last kernel call issued failed.
LastCallFailed == log # <<>> /\ sys # "OK"

\* C18: in the namespace, mount, user namespace and rlimit components, once
\* a kernel call has failed the component issues no further kernel call
\* (none is retried) and it returns a failure.
C18_NoCallAfterFailure ==
  /\ []((Returned /\ LastCallFailed) => result < 0)
  /\ [][LastCallFailed => log' = log]_vars

\* C18 but for the second open of do_pivot, issued before the first is
\* tested (lines 169-173).
C18_ButForSecondOpen ==
  /\ []((Returned /\ LastCallFailed) => result < 0)
  /\ []((LastCallFailed /\ pc # "pivot_open_new") => Failed)
  /\ [][(LastCallFailed /\ pc # "pivot_open_new") => log' = log]_vars

----------------------------------------------------------------------------
(* Claims about the mount calls of the mount plan. *)

\* The mount calls of do_mounts logged so far: those on a target under the
\* rootfs.
PlanMounts ==
  LET OfPlan(c) == c.op = "mount" /\ Len(c.target) = 3
  IN SelectSeq(log, OfPlan)

\* The flags and the data derived for a request, by the spec's words.
DerivedBits(m) ==
  IF m.has_options
  THEN UNION {TableBits(m.options[k]) : k \in 1..Len(m.options)}
  ELSE DefaultBits(m.destination)

DerivedData(m) ==
  IF m.has_options THEN JoinCommas(SelectSeq(m.options, NotInTable))
  ELSE DefaultData(m.destination, container.host_uid = 0)

\* The mount call expected for a request that is not of type cgroup.
ExpectedMount(m) ==
  [source |-> IF m.source # NULL THEN m.source ELSE m.type,
   target |-> <<container.rootfs, "/", m.destination>>,
   type |-> m.type,
   bits |-> (DerivedBits(m)
             \cup (IF m.type = "bind" THEN Bits(MS_BIND) ELSE {}))
            \ Bits(MS_RDONLY),
   data |-> DerivedData(m)]

ExpectedPlanMounts ==
  LET NotCgroup(m) == m.type # "cgroup"
      ms == SelectSeq(def.mounts, NotCgroup)
  IN [k \in 1..Len(ms) |-> ExpectedMount(ms[k])]

IssuedPlanMounts ==
  [k \in 1..Len(PlanMounts) |->
     [source |-> PlanMounts[k].source, target |-> PlanMounts[k].target,
      type |-> PlanMounts[k].type, bits |-> Bits(PlanMounts[k].flags),
      data |-> PlanMounts[k].data]]

PivotBegun == \E k \in 1..Len(log) : log[k].op = "open"

\* C19: each mount call of the plan passes the derived flags, with the bind
\* flag added for type "bind" and the read-only flag cleared, the derived
\* data, and the explicit source or else the type; the read-only flag is in
\* no such call and "ro" in no data string; no call is issued for a request
\* of type "cgroup", and the requests after it get theirs.
C19_PlanMountArgs ==
  /\ IsPrefix(IssuedPlanMounts, ExpectedPlanMounts)
  /\ PivotBegun => IssuedPlanMounts = ExpectedPlanMounts
  /\ \A k \in 1..Len(PlanMounts) :
       /\ Bits(PlanMounts[k].flags) \cap Bits(MS_RDONLY) = {}
       /\ \A j \in 1..Len(PlanMounts[k].data) : PlanMounts[k].data[j] # "ro"
       /\ PlanMounts[k].type = "bind"
            => Bits(MS_BIND) \subseteq Bits(PlanMounts[k].flags)
       /\ PlanMounts[k].type # "cgroup"

C19_Witness ==
  /\ Succeeded
  /\ Len(def.mounts) = 2
  /\ def.mounts[1].type = "cgroup"
  /\ def.mounts[2].options = <<"rbind", "ro", "size=1k">>
  /\ Len(PlanMounts) = 1
  /\ PlanMounts[1].flags = MS_BIND
  /\ PlanMounts[1].data = <<"rbind", ",", "size=1k">>
  /\ PlanMounts[1].source = "/host/data"

----------------------------------------------------------------------------
(* Claims about name resolution before the kernel calls. *)

\* The capability names of the request that cap_from_name rejects.
UnresolvedCapNames ==
  IF def.has_capabilities
  THEN UNION {{def.capabilities[CapCategories[c]][k] :
                 k \in {x \in 1..Len(def.capabilities[CapCategories[c]]) :
                          cap_from_name(def.capabilities[CapCategories[c]][x])
                            < 0}} :
              c \in 1..Len(CapCategories)}
  ELSE {}

\* C20: with an unrecognized namespace type in the list,
\* libcrun_set_namespaces issues no unshare, open or setns and leaves
\* unshare_flags as it was; with an unresolvable capability name in any of
\* the five lists, libcrun_set_caps fails naming such a capability and
\* issues no prctl and no capset.
C20_ResolveFirst ==
  /\ [](/\ ~AllNsRecognized => (log = <<>> /\ open_fds = {})
        /\ ~AllCapsResolve =>
             /\ log = <<>>
             /\ proc = proc0
             /\ pc \in {"set_caps", "done"}
             /\ Returned => (result < 0 /\ err.arg \in UnresolvedCapNames))
  /\ [][/\ ~AllNsRecognized =>
             (container' = container /\ log' = log /\ proc' = proc)
        /\ ~AllCapsResolve => (log' = log /\ proc' = proc)]_vars

C20_Witness ==
  /\ Failed
  /\ def.has_capabilities
  /\ def.capabilities.ambient = <<"CAP_CHOWN", "CAP_BOGUS", "CAP_SYS_ADMIN">>
  /\ def.capabilities.bounding = <<"CAP_SYS_ADMIN", "CAP_UNKNOWN">>
  /\ err.arg = "CAP_BOGUS"
  /\ log = <<>>

============================================================================
